---- MODULE Spec2Model ----
(***************************************************************************)
(* python-ollm-wrapper/main.py: the /v1/chat/completions endpoint.         *)
(*                                                                         *)
(* One request is handled by create_chat_completion, a coroutine without   *)
(* any await: it runs from entry to its return (or to the HTTPException)   *)
(* in one step of the event loop.  In streaming mode the handler returns a *)
(* StreamingResponse around the async generator stream_response; that      *)
(* generator is resumed by the transport once per frame, so its positions  *)
(* (the for statement's next(), the three yield statements) are the steps  *)
(* of the streaming part.                                                  *)
(*                                                                         *)
(* Text is modelled by TLA+ strings, concatenated with \o.  The "id" and   *)
(* "created" fields, which are read from the clock, are left out of the    *)
(* records: no property below reads them.                                  *)
(***************************************************************************)
EXTENDS Integers, Sequences, FiniteSets, TLC

(***************************************************************************)
(* Bounds of the input space.                                              *)
(***************************************************************************)
\* longest messages list of a request, one request in flight
MaxMsgs == 2
\* most fragments a generator produces, one request in flight
MaxFrags == 2
\* most fragments a generator produces, two requests in flight
MaxPairFrags == 2

Requests == {1, 2}

Models == {"llama", "phi"}

\* Dict[str, str] entries of request.messages: complete ones, and ones the
\* schema accepts although a key the handler reads is missing.
Messages ==
    { [role |-> "user", content |-> "hi"],
      [role |-> "assistant", content |-> ""],
      [role |-> "user"],
      [content |-> "hi"] }

Fragments == {"Hi", " there", ""}

\* str(e) of what ollm raises; an exception built without arguments has the
\* empty text.
ErrorTexts == {"", "model not found"}

SeqsUpTo(S, n) == UNION { [1..k -> S] : k \in 0..n }

\* What ollm.generate does for one call: it raises at the call ("call"), or
\* returns an iterator that yields frags and then is exhausted ("none") or
\* raises ("iter").
Behaviours(frags, n, errs) ==
    { [frags |-> f, raises |-> "none", err |-> ""] : f \in SeqsUpTo(frags, n) }
    \cup { [frags |-> <<>>, raises |-> "call", err |-> e] : e \in errs }
    \cup { [frags |-> f, raises |-> "iter", err |-> e] :
             f \in SeqsUpTo(frags, n), e \in errs }

ChatCompletionRequest(msgs) ==
    [model : Models, messages : msgs, stream : BOOLEAN]

NoRequest == [model |-> "", messages |-> <<>>, stream |-> FALSE]
NoBehaviour == [frags |-> <<>>, raises |-> "none", err |-> ""]

VARIABLES
    req,        \* req[r]: the validated body of request r
    gen,        \* gen[r]: what ollm.generate does for request r
    pc,         \* pc[r]: where the handling of request r stands
    call,       \* call[r]: the arguments ollm.generate was called with, if it was
    pulled,     \* pulled[r]: fragments obtained from response_generator so far
    chunk,      \* chunk[r]: the loop variable of stream_response
    status,     \* status[r]: HTTP status of the response, 0 while there is none
    body,       \* body[r]: the JSON body of a non-streaming or failure response
    frames      \* frames[r]: the frames stream_response has yielded, in order

vars == <<req, gen, pc, call, pulled, chunk, status, body, frames>>

InternalError == 500

(***************************************************************************)
(* The handler's pure parts.                                               *)
(***************************************************************************)

\* The result of evaluating an expression: its value, or the exception it
\* raised (only str(e) is ever read from one).
Returned(value) == [raised |-> FALSE, value |-> value]
Raised(text) == [raised |-> TRUE, text |-> text]

\* str(KeyError(key)) is the key's repr
KeyErrorText(key) == "'" \o key \o "'"

\* message.get(key, "") in place of message[key]: a missing key reads as ""
SubscriptOrEmpty(message, key) ==
    Returned(IF key \in DOMAIN message THEN message[key] ELSE "")

\* message[key] on a dict
Subscript(message, key) ==
    IF key \in DOMAIN message
    THEN Returned(message[key])
    ELSE Raised(KeyErrorText(key))

\* the line with ":" for ": "
ConversationLineNoSpace(message) ==
    LET role == Subscript(message, "role")
        content == Subscript(message, "content")
    IN  IF role.raised THEN role
        ELSE IF content.raised THEN content
        ELSE Returned(role.value \o ":" \o content.value)

\* f"{message['role']}: {message['content']}", 'role' being read first
ConversationLine(message) ==
    LET role == Subscript(message, "role")
        content == Subscript(message, "content")
    IN  IF role.raised THEN role
        ELSE IF content.raised THEN content
        ELSE Returned(role.value \o ": " \o content.value)

\* The list comprehension of line 20: the lines in the order of the messages,
\* or the exception of the first message whose line raises.
Conversation(messages) ==
    LET lines == [i \in 1..Len(messages) |-> ConversationLine(messages[i])]
        bad == { i \in 1..Len(messages) : lines[i].raised }
    IN  IF bad = {}
        THEN Returned([i \in 1..Len(messages) |-> lines[i].value])
        ELSE lines[CHOOSE i \in bad : \A j \in bad : i <= j]

\* " ".join(fragments): a separator between the fragments
RECURSIVE JoinWithSpaces(_)
JoinWithSpaces(fragments) ==
    IF fragments = <<>> THEN ""
    ELSE IF Len(fragments) = 1 THEN Head(fragments)
    ELSE Head(fragments) \o " " \o JoinWithSpaces(Tail(fragments))

\* the last fragment for the whole text: the generator taken to yield the
\* text so far each time, not the increment
JoinLastFragment(fragments) ==
    IF fragments = <<>> THEN "" ELSE fragments[Len(fragments)]

\* "".join(fragments)
RECURSIVE Join(_)
Join(fragments) ==
    IF fragments = <<>> THEN ""
    ELSE Head(fragments) \o Join(Tail(fragments))

\* the dict of lines 31-43, "id" and "created" left out
ResponseChunk(model, fragment) ==
    [ object |-> "chat.completion.chunk",
      model |-> model,
      choices |-> << [ index |-> 0,
                       delta |-> [content |-> fragment],
                       finish_reason |-> "null" ] >> ]

\* the final chunk with an empty content for the empty delta
FinalChunkEmptyContent(model) ==
    [ object |-> "chat.completion.chunk",
      model |-> model,
      choices |-> << [ index |-> 0,
                       delta |-> [content |-> ""],
                       finish_reason |-> "stop" ] >> ]

\* the dict of lines 47-59; its delta is the empty dict
FinalChunk(model) ==
    [ object |-> "chat.completion.chunk",
      model |-> model,
      choices |-> << [ index |-> 0,
                       delta |-> <<>>,
                       finish_reason |-> "stop" ] >> ]

\* f"data: {json.dumps(chunk)}\n\n": one server-sent event carrying a JSON body
DataFrame(json) == [data |-> "json", json |-> json]

\* "data: [DONE]\n\n"
DoneFrame == [data |-> "[DONE]"]

\* the envelope with the completion counted in characters
EnvelopeCounting(model, full_response) ==
    [ object |-> "chat.completion",
      model |-> model,
      choices |-> << [ index |-> 0,
                       message |-> [role |-> "assistant", content |-> full_response],
                       finish_reason |-> "stop" ] >>,
      usage |-> [ prompt_tokens |-> 0,
                  completion_tokens |-> Len(full_response),
                  total_tokens |-> Len(full_response) ] ]

\* the dict of lines 65-85, "id" and "created" left out
Envelope(model, full_response) ==
    [ object |-> "chat.completion",
      model |-> model,
      choices |-> << [ index |-> 0,
                       message |-> [role |-> "assistant", content |-> full_response],
                       finish_reason |-> "stop" ] >>,
      usage |-> [prompt_tokens |-> 0, completion_tokens |-> 0, total_tokens |-> 0] ]

\* what FastAPI sends for HTTPException(status_code=500, detail=str(e))
ErrorBody(text) == [detail |-> text]

(***************************************************************************)
(* Initial states.                                                         *)
(***************************************************************************)
InitOf(requests, behaviours, inflight) ==
    /\ req \in { [r \in Requests |-> IF r \in inflight THEN f[r] ELSE NoRequest] :
                   f \in [inflight -> requests] }
    /\ gen \in { [r \in Requests |-> IF r \in inflight THEN g[r] ELSE NoBehaviour] :
                   g \in [inflight -> behaviours] }
    /\ pc = [r \in Requests |-> IF r \in inflight THEN "pending" ELSE "none"]
    /\ call = [r \in Requests |-> <<>>]
    /\ pulled = [r \in Requests |-> 0]
    /\ chunk = [r \in Requests |-> ""]
    /\ status = [r \in Requests |-> 0]
    /\ body = [r \in Requests |-> <<>>]
    /\ frames = [r \in Requests |-> <<>>]

\* one request in flight, over the whole input space
Init ==
    InitOf(ChatCompletionRequest(SeqsUpTo(Messages, MaxMsgs)),
           Behaviours(Fragments, MaxFrags, ErrorTexts),
           {1})

\* two requests in flight at once, each over a smaller input space
PairMessages == { <<[role |-> "user", content |-> "hi"]>>, <<[role |-> "user"]>> }

InitPair ==
    InitOf(ChatCompletionRequest(PairMessages),
           Behaviours({"Hi", " there"}, MaxPairFrags, {"model not found"}),
           Requests)

(***************************************************************************)
(* The handler: lines 17-87, entry to return or HTTPException.             *)
(***************************************************************************)

\* the failure without the error's text
FailureWithoutText(text) ==
    [pc |-> "failed", status |-> InternalError, body |-> ErrorBody("Internal Server Error")]

\* except Exception as e: raise HTTPException(status_code=500, detail=str(e))
Failure(text) ==
    [pc |-> "failed", status |-> InternalError, body |-> ErrorBody(text)]

\* one iterator kept at module level and used by every request
SharedGenerator(r) == gen[1]

\* the iterator ollm.generate returns for request r
response_generator(r) == gen[r]

create_chat_completion(r) ==
    /\ pc[r] = "pending"
    /\ LET request == req[r]
           conversation == Conversation(request.messages)
           generated == response_generator(r)
           invocation == [ model_name |-> request.model,
                           prompt |-> conversation.value,
                           stream |-> request.stream ]
           called == ~conversation.raised
           drains == called /\ generated.raises # "call" /\ ~request.stream
           outcome ==
               IF conversation.raised THEN Failure(conversation.text)
               ELSE IF generated.raises = "call" THEN Failure(generated.err)
               ELSE IF request.stream
                    THEN [pc |-> "streaming", status |-> 200, body |-> <<>>]
               ELSE IF generated.raises = "iter" THEN Failure(generated.err)
               ELSE [ pc |-> "completed", status |-> 200,
                      body |-> Envelope(request.model, Join(generated.frags)) ]
       IN  /\ call' = [call EXCEPT ![r] = IF called THEN <<invocation>> ELSE <<>>]
           /\ pulled' = [pulled EXCEPT
                           ![r] = IF drains THEN Len(generated.frags) ELSE 0]
           /\ pc' = [pc EXCEPT ![r] = outcome.pc]
           /\ status' = [status EXCEPT ![r] = outcome.status]
           /\ body' = [body EXCEPT ![r] = outcome.body]
    /\ UNCHANGED <<req, gen, chunk, frames>>

(***************************************************************************)
(* stream_response: lines 29-61, resumed by the transport frame by frame.  *)
(***************************************************************************)

\* the loop reading one fragment ahead of the one it hands on
NextFragmentReadAhead(r) ==
    /\ pc[r] = "streaming"
    /\ LET generated == response_generator(r)
       IN  IF pulled[r] < Len(generated.frags)
           THEN /\ chunk' = [chunk EXCEPT ![r] = generated.frags[pulled[r] + 1]]
                /\ pulled' = [pulled EXCEPT
                                ![r] = IF pulled[r] + 2 <= Len(generated.frags)
                                       THEN pulled[r] + 2 ELSE pulled[r] + 1]
                /\ pc' = [pc EXCEPT ![r] = "chunk"]
           ELSE /\ pc' = [pc EXCEPT
                            ![r] = IF generated.raises = "iter"
                                   THEN "aborted" ELSE "final"]
                /\ UNCHANGED <<chunk, pulled>>
    /\ UNCHANGED <<req, gen, call, status, body, frames>>

\* the loop inside a try block that takes an exception for the end of the
\* fragments
NextFragmentSwallowing(r) ==
    /\ pc[r] = "streaming"
    /\ LET generated == response_generator(r)
       IN  IF pulled[r] < Len(generated.frags)
           THEN /\ chunk' = [chunk EXCEPT ![r] = generated.frags[pulled[r] + 1]]
                /\ pulled' = [pulled EXCEPT ![r] = pulled[r] + 1]
                /\ pc' = [pc EXCEPT ![r] = "chunk"]
           ELSE /\ pc' = [pc EXCEPT ![r] = "final"]
                /\ UNCHANGED <<chunk, pulled>>
    /\ UNCHANGED <<req, gen, call, status, body, frames>>

\* line 30: the for statement asks response_generator for its next fragment.
\* An exception of the iterator leaves stream_response: the handler's try
\* block was left when the StreamingResponse was returned.
NextFragment(r) ==
    /\ pc[r] = "streaming"
    /\ LET generated == response_generator(r)
       IN  IF pulled[r] < Len(generated.frags)
           THEN /\ chunk' = [chunk EXCEPT ![r] = generated.frags[pulled[r] + 1]]
                /\ pulled' = [pulled EXCEPT ![r] = pulled[r] + 1]
                /\ pc' = [pc EXCEPT ![r] = "chunk"]
           ELSE /\ pc' = [pc EXCEPT
                            ![r] = IF generated.raises = "iter"
                                   THEN "aborted" ELSE "final"]
                /\ UNCHANGED <<chunk, pulled>>
    /\ UNCHANGED <<req, gen, call, status, body, frames>>

\* lines 31-44: the chunk for the fragment just obtained is yielded
YieldChunk(r) ==
    /\ pc[r] = "chunk"
    /\ frames' = [frames EXCEPT
                    ![r] = Append(@, DataFrame(ResponseChunk(req[r].model, chunk[r])))]
    /\ pc' = [pc EXCEPT ![r] = "streaming"]
    /\ UNCHANGED <<req, gen, call, pulled, chunk, status, body>>

\* lines 47-60: the loop is over, the chunk with finish_reason is yielded
YieldFinal(r) ==
    /\ pc[r] = "final"
    /\ frames' = [frames EXCEPT ![r] = Append(@, DataFrame(FinalChunk(req[r].model)))]
    /\ pc' = [pc EXCEPT ![r] = "sentinel"]
    /\ UNCHANGED <<req, gen, call, pulled, chunk, status, body>>

\* line 61
YieldDone(r) ==
    /\ pc[r] = "sentinel"
    /\ frames' = [frames EXCEPT ![r] = Append(@, DoneFrame)]
    /\ pc' = [pc EXCEPT ![r] = "return"]
    /\ UNCHANGED <<req, gen, call, pulled, chunk, status, body>>

\* resumed after the last yield, stream_response ends
StreamEnd(r) ==
    /\ pc[r] = "return"
    /\ pc' = [pc EXCEPT ![r] = "closed"]
    /\ UNCHANGED <<req, gen, call, pulled, chunk, status, body, frames>>

Next ==
    \E r \in Requests :
        \/ create_chat_completion(r)
        \/ NextFragment(r)
        \/ YieldChunk(r)
        \/ YieldFinal(r)
        \/ YieldDone(r)
        \/ StreamEnd(r)

Spec == Init /\ [][Next]_vars

SpecConcurrent == InitPair /\ [][Next]_vars

(***************************************************************************)
(* Vocabulary of the properties.                                           *)
(***************************************************************************)

\* every entry of the messages list has the two keys the handler reads
WellFormed(messages) ==
    \A i \in 1..Len(messages) : {"role", "content"} \subseteq DOMAIN messages[i]

IsJsonFrame(frame) == "json" \in DOMAIN frame

\* a chunk that carries a fragment: a content delta and no finish reason
IsContentChunk(frame) ==
    /\ IsJsonFrame(frame)
    /\ frame.json.object = "chat.completion.chunk"
    /\ Len(frame.json.choices) = 1
    /\ frame.json.choices[1].finish_reason = "null"
    /\ DOMAIN frame.json.choices[1].delta = {"content"}

\* the terminal chunk: an empty delta and finish reason "stop"
IsTerminalChunk(frame) ==
    /\ IsJsonFrame(frame)
    /\ frame.json.object = "chat.completion.chunk"
    /\ Len(frame.json.choices) = 1
    /\ frame.json.choices[1].finish_reason = "stop"
    /\ DOMAIN frame.json.choices[1].delta = {}

IsSentinel(frame) == ~IsJsonFrame(frame) /\ frame.data = "[DONE]"

DeltaContent(frame) == frame.json.choices[1].delta.content

\* the content chunks among the frames, in emission order
ContentChunks(fs) == SelectSeq(fs, IsContentChunk)

\* the delta contents of the content chunks, concatenated in emission order
RECURSIVE ConcatDeltas(_)
ConcatDeltas(fs) ==
    IF fs = <<>> THEN ""
    ELSE IF IsContentChunk(Head(fs))
         THEN DeltaContent(Head(fs)) \o ConcatDeltas(Tail(fs))
         ELSE ConcatDeltas(Tail(fs))

\* the stream of request r is over: stream_response yielded its last frame
StreamOver(r) == pc[r] \in {"return", "closed"}

\* the handling of request r has come to its end, one way or another
Finished(r) == pc[r] \in {"completed", "failed", "closed", "aborted"}

(***************************************************************************)
(* C1.  A streaming request whose generator produces f1..fn without        *)
(* raising is answered by exactly n + 2 frames: one content chunk per      *)
(* fragment, in order, with object "chat.completion.chunk", delta content  *)
(* fi and no finish reason; then one terminal chunk with an empty delta    *)
(* and finish reason "stop"; then the "[DONE]" sentinel.  The frames stay  *)
(* these from the sentinel on: nothing is emitted after it.                *)
(***************************************************************************)
C1_StreamFrames ==
    \A r \in Requests :
        (req[r].stream /\ gen[r].raises = "none" /\ StreamOver(r)) =>
            LET n == Len(gen[r].frags)
            IN  /\ Len(frames[r]) = n + 2
                /\ \A i \in 1..n :
                       /\ IsContentChunk(frames[r][i])
                       /\ DeltaContent(frames[r][i]) = gen[r].frags[i]
                /\ IsTerminalChunk(frames[r][n + 1])
                /\ IsSentinel(frames[r][n + 2])

C1_Witness ==
    \E r \in Requests :
        /\ req[r].stream /\ gen[r].raises = "none" /\ pc[r] = "closed"
        /\ Len(gen[r].frags) = 2 /\ gen[r].frags[1] # gen[r].frags[2]
        /\ Len(frames[r]) = 4

(***************************************************************************)
(* C2, as stated.  Whenever the generator raises, at the call or while it  *)
(* is consumed, in either mode, the request ends with status 500 and a     *)
(* body whose detail is a non-empty string, the error's text.  (Stated for *)
(* the errors that have a text: str(e) of an exception built without       *)
(* arguments is empty, and so is the detail then.)                         *)
(***************************************************************************)
C2_RaiseGives500 ==
    \A r \in Requests :
        ( /\ call[r] # <<>> /\ gen[r].raises # "none" /\ gen[r].err # ""
          /\ Finished(r) ) =>
            /\ status[r] = InternalError
            /\ body[r] = [detail |-> gen[r].err]
            /\ body[r].detail # ""

(***************************************************************************)
(* C2, amended.  If the generator raises at the generate call (either      *)
(* mode) or while it is drained in non-streaming mode, the request ends    *)
(* with status 500, a body whose detail is str(e) of the error (non-empty  *)
(* exactly when the error has a text) and no frame.  If it raises while    *)
(* stream_response iterates it, the response was started with status 200   *)
(* before: the request never gets status 500 nor an error body, and its    *)
(* stream ends broken.                                                     *)
(***************************************************************************)
C2_RaiseOutcome ==
    \A r \in Requests :
        (call[r] # <<>> /\ gen[r].raises # "none") =>
            IF gen[r].raises = "call" \/ ~req[r].stream
            THEN /\ pc[r] = "failed"
                 /\ status[r] = InternalError
                 /\ body[r] = [detail |-> gen[r].err]
                 /\ frames[r] = <<>>
            ELSE /\ status[r] = 200
                 /\ body[r] = <<>>
                 /\ Finished(r) => pc[r] = "aborted"

C2_Witness ==
    \E r \in Requests :
        /\ ~req[r].stream /\ gen[r].raises = "iter" /\ Len(gen[r].frags) = 2
        /\ pc[r] = "failed"
        /\ body[r] = [detail |-> "model not found"]

(***************************************************************************)
(* C3.  A non-streaming request with well-formed messages whose generator  *)
(* does not raise gets status 200 and an envelope with object              *)
(* "chat.completion", the request's model, exactly one choice (index 0,    *)
(* assistant role, finish reason "stop") and the three usage counters 0.   *)
(***************************************************************************)
C3_Envelope ==
    \A r \in Requests :
        ( /\ pc[r] \notin {"none", "pending"}
          /\ ~req[r].stream /\ WellFormed(req[r].messages)
          /\ gen[r].raises = "none" ) =>
            /\ pc[r] = "completed"
            /\ status[r] = 200
            /\ body[r].object = "chat.completion"
            /\ body[r].model = req[r].model
            /\ Len(body[r].choices) = 1
            /\ body[r].choices[1].index = 0
            /\ body[r].choices[1].message.role = "assistant"
            /\ body[r].choices[1].finish_reason = "stop"
            /\ body[r].usage.prompt_tokens = 0
            /\ body[r].usage.completion_tokens = 0
            /\ body[r].usage.total_tokens = 0

C3_Witness ==
    \E r \in Requests :
        /\ pc[r] = "completed"
        /\ Len(req[r].messages) = 2
        /\ Len(gen[r].frags) = 2 /\ gen[r].frags[1] # ""
        /\ body[r].model = "phi"

(***************************************************************************)
(* C4.  For the same generator output, the delta contents of the content   *)
(* chunks of a finished streaming response, concatenated in emission       *)
(* order, are the message content of the non-streaming envelope.           *)
(***************************************************************************)
C4_StreamEqualsEnvelope ==
    \A s, n \in Requests :
        ( /\ req[s].stream /\ StreamOver(s)
          /\ ~req[n].stream /\ pc[n] = "completed"
          /\ gen[s].frags = gen[n].frags ) =>
            ConcatDeltas(frames[s]) = body[n].choices[1].message.content

C4_Witness ==
    \E s, n \in Requests :
        /\ req[s].stream /\ pc[s] = "closed"
        /\ ~req[n].stream /\ pc[n] = "completed"
        /\ gen[s].frags = gen[n].frags
        /\ gen[s].frags = <<"Hi", " there">>
        /\ ConcatDeltas(frames[s]) = "Hi there"

(***************************************************************************)
(* C5.  The content of the non-streaming envelope is every fragment of the *)
(* generator, in production order, each exactly once and with nothing in   *)
(* between: fragment i fills the positions right after the fragments       *)
(* before it, and the content ends with the last one.  The generator is    *)
(* fully drained.  <<"Hi", " there">> gives "Hi there", no fragment gives  *)
(* the empty string.                                                       *)
(***************************************************************************)
RECURSIVE LengthBefore(_, _)
LengthBefore(fragments, i) ==
    IF i <= 1 THEN 0
    ELSE LengthBefore(fragments, i - 1) + Len(fragments[i - 1])

C5_FullResponse ==
    \A r \in Requests :
        pc[r] = "completed" =>
            LET content == body[r].choices[1].message.content
                fragments == gen[r].frags
                n == Len(fragments)
            IN  /\ pulled[r] = n
                /\ Len(content) = LengthBefore(fragments, n + 1)
                /\ \A i \in 1..n :
                       SubSeq(content,
                              LengthBefore(fragments, i) + 1,
                              LengthBefore(fragments, i + 1)) = fragments[i]
                /\ fragments = <<"Hi", " there">> => content = "Hi there"
                /\ fragments = <<>> => content = ""

C5_Witness ==
    \E r \in Requests :
        /\ pc[r] = "completed"
        /\ gen[r].frags = <<"Hi", " there">>
        /\ body[r].choices[1].message.content = "Hi there"

(***************************************************************************)
(* C6.  ollm.generate is called once for a request whose messages all have *)
(* both keys, with the request's model as model_name, the request's stream *)
(* flag as stream, and as prompt one line per message, in the order of the *)
(* messages, line i being role_i, then ": ", then content_i.  The single   *)
(* message {role: "user", content: "hi"} gives the single line "user: hi". *)
(***************************************************************************)
C6_GeneratorCall ==
    \A r \in Requests :
        (pc[r] \notin {"none", "pending"} /\ WellFormed(req[r].messages)) =>
            /\ Len(call[r]) = 1
            /\ call[r][1].model_name = req[r].model
            /\ call[r][1].stream = req[r].stream
            /\ Len(call[r][1].prompt) = Len(req[r].messages)
            /\ \A i \in 1..Len(req[r].messages) :
                   call[r][1].prompt[i] =
                       req[r].messages[i].role \o ": " \o req[r].messages[i].content
            /\ req[r].messages = <<[role |-> "user", content |-> "hi"]>> =>
                   call[r][1].prompt = <<"user: hi">>

C6_Witness ==
    \E r \in Requests :
        /\ req[r].stream
        /\ Len(call[r]) = 1
        /\ call[r][1].prompt = <<"user: hi", "assistant: ">>
        /\ call[r][1].model_name = "phi"

(***************************************************************************)
(* C7.  A request one of whose messages lacks the role key or the content  *)
(* key fails, with stream set or not: status 500 and a body that is a      *)
(* detail and nothing else, never an envelope, and no frame at any time.   *)
(***************************************************************************)
C7_MissingKeyFails ==
    \A r \in Requests :
        (pc[r] \notin {"none", "pending"} /\ ~WellFormed(req[r].messages)) =>
            /\ pc[r] = "failed"
            /\ status[r] = InternalError
            /\ DOMAIN body[r] = {"detail"}
            /\ body[r].detail \in {"'role'", "'content'"}
            /\ frames[r] = <<>>

C7_Witness ==
    \E r \in Requests :
        /\ req[r].stream
        /\ req[r].messages = <<[role |-> "user", content |-> "hi"], [role |-> "user"]>>
        /\ pc[r] = "failed"
        /\ body[r] = [detail |-> "'content'"]

(***************************************************************************)
(* C8.  While a response is streamed, the fragments obtained from the      *)
(* generator are at most one ahead of the content chunks emitted, and one  *)
(* ahead exactly while the chunk of the last fragment waits to be yielded: *)
(* fragment i + 1 is asked for only when the chunk of fragment i is out.   *)
(* The chunks emitted are those of the first fragments, one each, in the   *)
(* generator's order.                                                      *)
(***************************************************************************)
C8_LazyStreaming ==
    \A r \in Requests :
        req[r].stream =>
            LET out == ContentChunks(frames[r])
            IN  /\ pulled[r] = Len(out) + (IF pc[r] = "chunk" THEN 1 ELSE 0)
                /\ pulled[r] <= Len(gen[r].frags)
                /\ \A i \in 1..Len(out) : DeltaContent(out[i]) = gen[r].frags[i]
                /\ \A i \in 1..Len(out) : frames[r][i] = out[i]
                /\ pc[r] = "chunk" => chunk[r] = gen[r].frags[pulled[r]]

C8_Witness ==
    \E r \in Requests :
        /\ req[r].stream /\ pc[r] = "chunk"
        /\ pulled[r] = 2
        /\ Len(frames[r]) = 1
        /\ gen[r].frags[1] # gen[r].frags[2]

(***************************************************************************)
(* C9.  With two requests handled at once, what a request has been         *)
(* answered at any moment is determined by its own model, messages,        *)
(* stream flag and generator output: its status and body are those its     *)
(* own inputs give, and its frames are the first frames of the sequence    *)
(* its own inputs give, whatever the other request is and does.            *)
(***************************************************************************)
OwnChunk(model, content, finish_reason) ==
    [ data |-> "json",
      json |-> [ object |-> "chat.completion.chunk",
                 model |-> model,
                 choices |-> << [ index |-> 0,
                                  delta |-> IF finish_reason = "stop"
                                            THEN <<>>
                                            ELSE [content |-> content],
                                  finish_reason |-> finish_reason ] >> ] ]

\* the frames a streaming request is answered in the end
OwnFrames(request, behaviour) ==
    IF ~(request.stream /\ WellFormed(request.messages)) \/ behaviour.raises = "call"
    THEN <<>>
    ELSE [i \in 1..Len(behaviour.frags) |->
             OwnChunk(request.model, behaviour.frags[i], "null")]
         \o (IF behaviour.raises = "iter"
             THEN <<>>
             ELSE <<OwnChunk(request.model, "", "stop"), [data |-> "[DONE]"]>>)

\* the status a request is answered once its handler has run
OwnStatus(request, behaviour) ==
    IF ~WellFormed(request.messages) \/ behaviour.raises = "call" THEN 500
    ELSE IF request.stream THEN 200
    ELSE IF behaviour.raises = "iter" THEN 500
    ELSE 200

\* the body a request is answered once its handler has run
RECURSIVE OwnText(_, _)
OwnText(fragments, k) ==
    IF k = 0 THEN "" ELSE OwnText(fragments, k - 1) \o fragments[k]

IsPrefix(s, t) == Len(s) <= Len(t) /\ s = SubSeq(t, 1, Len(s))

C9_Isolation ==
    \A r \in Requests :
        /\ IsPrefix(frames[r], OwnFrames(req[r], gen[r]))
        /\ pc[r] \in {"return", "closed", "aborted"} =>
               frames[r] = OwnFrames(req[r], gen[r])
        /\ pc[r] # "pending" =>
               /\ status[r] = OwnStatus(req[r], gen[r])
               /\ pc[r] = "completed" =>
                      /\ body[r].model = req[r].model
                      /\ body[r].choices[1].message.content
                             = OwnText(gen[r].frags, Len(gen[r].frags))
               /\ (pc[r] = "failed" /\ WellFormed(req[r].messages)) =>
                      body[r] = [detail |-> gen[r].err]

\* both requests in the middle of their streams, with different models and
\* different fragments, each having emitted a chunk
C9_Witness ==
    /\ req[1].stream /\ req[2].stream
    /\ req[1].model # req[2].model
    /\ gen[1].frags = <<"Hi", " there">> /\ gen[2].frags = <<" there", "Hi">>
    /\ pc[1] = "chunk" /\ pc[2] = "streaming"
    /\ Len(frames[1]) = 1 /\ Len(frames[2]) = 1

(***************************************************************************)
(* C10.  A streaming response whose generator raises after k fragments     *)
(* while it is iterated consists of content chunks only, those of the      *)
(* fragments in order, and of all k of them once the exception has left    *)
(* stream_response; neither the terminal chunk nor the sentinel is ever    *)
(* among its frames.  A terminal chunk or a sentinel is among the frames   *)
(* of a request only if its generator was exhausted without raising.       *)
(***************************************************************************)
C10_AbortedStream ==
    \A r \in Requests :
        /\ (req[r].stream /\ gen[r].raises = "iter") =>
               /\ Len(frames[r]) <= Len(gen[r].frags)
               /\ \A i \in 1..Len(frames[r]) :
                      /\ IsContentChunk(frames[r][i])
                      /\ DeltaContent(frames[r][i]) = gen[r].frags[i]
               /\ pc[r] \notin {"final", "sentinel", "return", "closed"}
               /\ pc[r] = "aborted" => Len(frames[r]) = Len(gen[r].frags)
        /\ \A i \in 1..Len(frames[r]) :
               (IsTerminalChunk(frames[r][i]) \/ IsSentinel(frames[r][i])) =>
                   /\ gen[r].raises = "none"
                   /\ pulled[r] = Len(gen[r].frags)
                   /\ i > Len(gen[r].frags)

C10_Witness ==
    \E r \in Requests :
        /\ req[r].stream /\ gen[r].raises = "iter"
        /\ pc[r] = "aborted"
        /\ Len(gen[r].frags) = 2
        /\ Len(frames[r]) = 2

====
